---- MODULE Spec2Model ----
(***************************************************************************)
(* A model of extensions/gitpod/src/registerAuth.ts: the Gitpod            *)
(* authentication provider (getSessions, createSession, removeSession      *)
(* over the secret store), resolveAuthenticationSession and                *)
(* promiseFromEvent.                                                       *)
(*                                                                         *)
(* JavaScript values are records tagged with a `kind`, so that values of   *)
(* different JavaScript types can be compared.  Each asynchronous function *)
(* is cut at its awaits: one action runs the code from one suspension      *)
(* point to the next.                                                      *)
(***************************************************************************)
EXTENDS Integers, Sequences, FiniteSets, TLC

\* ------------------------------------------------------------- bounds
\* Longest scope array a caller passes.
MaxScopes == 2
\* Most createSession calls in one behaviour.
MaxCalls == 2

\* ------------------------------------------------------- JavaScript values
Undefined == [kind |-> "undefined"]

Str(t) == [kind |-> "text", text |-> t]

Array(s) == [kind |-> "array", items |-> s]

\* JavaScript truthiness: undefined and '' are falsy, every array and object
\* (the empty array too) is truthy.
Truthy(v) == ~(v.kind = "undefined" \/ (v.kind = "text" /\ v.text = ""))

\* a || b
Or(a, b) == IF Truthy(a) THEN a ELSE b

\* The sequences over S of length at most n.
RECURSIVE SeqsUpTo(_, _)
SeqsUpTo(S, n) ==
    IF n = 0 THEN {<<>>}
    ELSE LET shorter == SeqsUpTo(S, n - 1)
         IN  shorter \cup {Append(s, x) : s \in {t \in shorter : Len(t) = n - 1}, x \in S}

\* Array.prototype.includes
Includes(arr, x) == \E i \in 1..Len(arr) : arr[i] = x

\* ------------------------------------------------------------ the data
AuthKey == "gitpod.authSession"

OtherKey == "gitpod.other"

Keys == {AuthKey, OtherKey}

scopes == <<"function:accessCodeSyncStorage", "resource:default", "function:getGitpodTokenScopes">>

\* The scope names callers ask for and sessions carry.
ScopeNames == {scopes[1], scopes[2]}

\* The scope arrays a caller passes.
ScopeLists == SeqsUpTo(ScopeNames, MaxScopes)

\* What a caller passes as `scopes`: an array, or nothing at all.
ScopesArgs == {Undefined} \cup {Array(s) : s \in ScopeLists}

Tokens == {"token1", "token2"}

\* What getLoggedInUser answers.
Users == {[id |-> "u1", name |-> "Ann"], [id |-> "u2", name |-> "Bob"]}

\* A faulty variant of BuildSession: the module's `scopes` list, which the parameter
\* of the same name shadows, in place of the scopes passed in.
BuildSessionModuleScopes(user, sc, accessToken) ==
    [id |-> "gitpod.user",
     account |-> [label |-> user.name, id |-> user.id],
     scopes |-> scopes,
     accessToken |-> accessToken]

\* The session descriptor of resolveAuthenticationSession.
BuildSession(user, sc, accessToken) ==
    [id |-> "gitpod.user",
     account |-> [label |-> user.name, id |-> user.id],
     scopes |-> sc,
     accessToken |-> accessToken]

\* The scope arrays of the stored sessions: one array for each set of names.
StoredScopeLists ==
    {<<>>, <<scopes[1]>>, <<scopes[2]>>, <<scopes[1], scopes[2]>>}

\* The session records the callback handler persists.
Sessions ==
    {BuildSession(CHOOSE u \in Users : u.id = "u1", sc, "token1") : sc \in StoredScopeLists}

\* JSON.stringify of a session: the string the secret store holds.
Stringify(session) == [kind |-> "json", session |-> session]

\* A stored string that is no JSON text.
Malformed == Str("{")

SyntaxError == [kind |-> "error", name |-> "SyntaxError"]

\* JSON.parse: the value a JSON text denotes; '' and other non-JSON text throw.
JSONparse(str) ==
    IF str.kind = "json" THEN [ok |-> TRUE, value |-> str.session]
    ELSE [ok |-> FALSE, value |-> SyntaxError]

\* What the secret store may hold under a key.
StoredValues == {Undefined, Malformed} \cup {Stringify(s) : s \in Sessions}

\* ----------------------------------------------------------- promises
Pending == [status |-> "pending", value |-> Undefined]

Resolved(v) == [status |-> "resolved", value |-> v]

Rejected(e) == [status |-> "rejected", value |-> e]

Settled(p) == p.status # "pending"


\* ------------------------------------------------------------ the state
VARIABLES
    secrets,          \* context.secrets: key -> stored string, or Undefined
    getCall,          \* the getSessions call: pc, scopes, result, and what the store
                      \* held under AuthKey when the call read it or returned without
    removeCall,       \* the removeSession call: pc, result
    createCall,       \* the createSession call: pc, timer, timeoutPromise, result
    changeSeen,       \* a secret-store change event fired since createSession started
    written,          \* the record last written under AuthKey while the timer was armed
    subscriptions,    \* how often the emitter was pushed to context.subscriptions
    sessionsChanged   \* how often onDidChangeSessionsEmitter fired

providerVars ==
    <<secrets, getCall, removeCall, createCall, changeSeen, written,
      subscriptions, sessionsChanged>>

\* ------------------------------------------------------------ hasScopes
\* A faulty variant of hasScopes: `some` in place of `every`.
hasScopesSome(session, requested) ==
    ~Truthy(requested)
    \/ \E i \in 1..Len(requested.items) : Includes(session.scopes, requested.items[i])

hasScopes(session, requested) ==
    ~Truthy(requested)
    \/ \A i \in 1..Len(requested.items) : Includes(session.scopes, requested.items[i])

\* sessions.filter(session => hasScopes(session, scopes))
RECURSIVE FilterByScopes(_, _)
FilterByScopes(sessions, requested) ==
    IF sessions = <<>> THEN <<>>
    ELSE IF hasScopes(Head(sessions), requested)
         THEN <<Head(sessions)>> \o FilterByScopes(Tail(sessions), requested)
         ELSE FilterByScopes(Tail(sessions), requested)

\* ---------------------------------------------------------- getSessions
\* A faulty variant of NoScopes: an empty array counts as no scopes.
NoScopesOrEmpty(requested) ==
    ~Truthy(requested) \/ requested.items = <<>>

\* `!scopes`
NoScopes(requested) == ~Truthy(requested)

IdleGet == [pc |-> "idle", scopes |-> Undefined, stored |-> Undefined, result |-> Pending]

\* getSessions up to its await: `if (!scopes) return []`, else secrets.get is
\* issued and the call suspends.
GetSessionsCall(requested) ==
    /\ getCall.pc \in {"idle", "done"}
    /\ getCall' =
         IF NoScopes(requested)
         THEN [pc |-> "done", scopes |-> requested, stored |-> secrets[AuthKey],
               result |-> Resolved(Array(<<>>))]
         ELSE [pc |-> "awaitGet", scopes |-> requested, stored |-> Undefined,
               result |-> Pending]
    /\ UNCHANGED <<secrets, removeCall, createCall, changeSeen, written,
                   subscriptions, sessionsChanged>>

\* What getSessions settles with once secrets.get answered `stored`:
\* JSON.parse(stored || ''), pushed, then filtered by hasScopes.
GetSessionsResult(stored, requested) ==
    LET parsed == JSONparse(Or(stored, Str("")))
    IN  IF ~parsed.ok THEN Rejected(parsed.value)
        ELSE Resolved(Array(FilterByScopes(<<parsed.value>>, requested)))

\* secrets.get answers and getSessions runs to its return.
GetSessionsResume ==
    /\ getCall.pc = "awaitGet"
    /\ getCall' = [getCall EXCEPT !.pc = "done",
                                  !.stored = secrets[AuthKey],
                                  !.result = GetSessionsResult(secrets[AuthKey], getCall.scopes)]
    /\ UNCHANGED <<secrets, removeCall, createCall, changeSeen, written,
                   subscriptions, sessionsChanged>>

\* -------------------------------------------------------- createSession
\* The function value `waitForAuthenticationSession` (the function, not a call of it).
waitForAuthenticationSession == [kind |-> "function", name |-> "waitForAuthenticationSession"]

TimedOut == Str("Login timed out.")

OpenError == [kind |-> "error", name |-> "openExternal"]

IsPromise(v) == "status" \in DOMAIN v

\* Promise.resolve(v): a promise is taken as it is, any other value fulfils.
PromiseResolve(v) == IF IsPromise(v) THEN v ELSE Resolved(v)

\* Promise.race(entries) at the moment it is called: every entry goes through
\* Promise.resolve, and the first entry already settled, in order, decides;
\* pending when none is.
PromiseRace(entries) ==
    LET ps == [i \in DOMAIN entries |-> PromiseResolve(entries[i])]
        settled == {i \in DOMAIN ps : Settled(ps[i])}
    IN  IF settled = {} THEN Pending
        ELSE ps[CHOOSE i \in settled : \A j \in settled : i <= j]

IdleCreate ==
    [pc |-> "idle", timer |-> "none", timeoutPromise |-> Pending, result |-> Pending]

\* A faulty variant of CreateSessionCall: the login starts by clearing the
\* record of the previous session.
CreateSessionCallClearsRecord(requested) ==
    /\ \/ createCall.pc = "idle"
       \/ createCall.pc = "settled" /\ createCall.timer = "fired"
    /\ subscriptions < MaxCalls
    /\ subscriptions' = subscriptions + 1
    /\ createCall' = [pc |-> "awaitOpen", timer |-> "armed",
                      timeoutPromise |-> Pending, result |-> Pending]
    /\ changeSeen' = FALSE
    /\ written' = Undefined
    /\ secrets' = [secrets EXCEPT ![AuthKey] = Undefined]
    /\ UNCHANGED <<getCall, removeCall, sessionsChanged>>

\* The provider's createSession and createSession(scopes) up to
\* `await vscode.env.openExternal(authURI)`: the emitter is pushed to
\* context.subscriptions, the 5-minute timer is armed, the browser is opened.
CreateSessionCall(requested) ==
    /\ \/ createCall.pc = "idle"
       \/ createCall.pc = "settled" /\ createCall.timer = "fired"
    /\ subscriptions < MaxCalls
    /\ subscriptions' = subscriptions + 1
    /\ createCall' = [pc |-> "awaitOpen", timer |-> "armed",
                      timeoutPromise |-> Pending, result |-> Pending]
    /\ changeSeen' = FALSE
    /\ written' = Undefined
    /\ UNCHANGED <<secrets, getCall, removeCall, sessionsChanged>>

\* What createSession returns once openExternal answered:
\* Promise.race([timeoutPromise, waitForAuthenticationSession]).
CreateSessionRace(timeoutPromise) ==
    PromiseRace(<<timeoutPromise, waitForAuthenticationSession>>)

\* A faulty variant of OpenExternalResolves: a createSession that has its
\* outcome clears the timer.
OpenExternalResolvesClearsTimer ==
    /\ createCall.pc = "awaitOpen"
    /\ LET race == CreateSessionRace(createCall.timeoutPromise)
       IN  createCall' = [createCall EXCEPT
                            !.pc = IF Settled(race) THEN "settled" ELSE "racing",
                            !.timer = IF Settled(race) /\ @ = "armed" THEN "none" ELSE @,
                            !.result = race]
    /\ UNCHANGED <<secrets, getCall, removeCall, changeSeen, written,
                   subscriptions, sessionsChanged>>

\* openExternal resolves (with true or false: the value is not read) and
\* createSession runs to its return.
OpenExternalResolves ==
    /\ createCall.pc = "awaitOpen"
    /\ LET race == CreateSessionRace(createCall.timeoutPromise)
       IN  createCall' = [createCall EXCEPT
                            !.pc = IF Settled(race) THEN "settled" ELSE "racing",
                            !.result = race]
    /\ UNCHANGED <<secrets, getCall, removeCall, changeSeen, written,
                   subscriptions, sessionsChanged>>

\* openExternal rejects: the await throws and createSession rejects.
OpenExternalRejects ==
    /\ createCall.pc = "awaitOpen"
    /\ createCall' = [createCall EXCEPT !.pc = "settled", !.result = Rejected(OpenError)]
    /\ UNCHANGED <<secrets, getCall, removeCall, changeSeen, written,
                   subscriptions, sessionsChanged>>

\* The setTimeout callback, 5 minutes after the call: timeoutPromise rejects,
\* and with it a race that is still undecided.
TimerFires ==
    /\ createCall.timer = "armed"
    /\ createCall' = [createCall EXCEPT
                        !.timer = "fired",
                        !.timeoutPromise = Rejected(TimedOut),
                        !.pc = IF @ = "racing" THEN "settled" ELSE @,
                        !.result = IF createCall.pc = "racing" THEN Rejected(TimedOut) ELSE @]
    /\ UNCHANGED <<secrets, getCall, removeCall, changeSeen, written,
                   subscriptions, sessionsChanged>>

\* -------------------------------------------------------- the secret store
\* secrets.onDidChange fires for `key`.  Nothing in the provider listens: the
\* only subscriber would be waitForAuthenticationSession, which createSession
\* never calls.  What is recorded is that the event fired during the call.
ChangeEventSeen == changeSeen \/ createCall.pc # "idle"

\* The callback handler (or another part of the extension) stores `value`
\* under `key`, and the store fires its change event.
ExternalStore(key, value) ==
    /\ secrets' = [secrets EXCEPT ![key] = value]
    /\ changeSeen' = ChangeEventSeen
    /\ written' = IF key = AuthKey /\ createCall.timer = "armed" THEN value ELSE written
    /\ UNCHANGED <<getCall, removeCall, createCall, subscriptions, sessionsChanged>>

\* --------------------------------------------------------- removeSession
\* removeSession up to `await context.secrets.delete(...)`.
RemoveSessionCall ==
    /\ removeCall.pc \in {"idle", "done"}
    /\ removeCall' = [pc |-> "awaitDelete", result |-> Pending]
    /\ UNCHANGED <<secrets, getCall, createCall, changeSeen, written,
                   subscriptions, sessionsChanged>>

\* A faulty variant of RemoveSessionResume: the record is deleted and
\* onDidChangeSessions is fired for it.
RemoveSessionResumeFires ==
    /\ removeCall.pc = "awaitDelete"
    /\ secrets' = [secrets EXCEPT ![AuthKey] = Undefined]
    /\ changeSeen' = ChangeEventSeen
    /\ removeCall' = [pc |-> "done", result |-> Resolved(Undefined)]
    /\ sessionsChanged' = 1
    /\ UNCHANGED <<getCall, createCall, written, subscriptions>>

\* The store deletes the record and fires its change event; removeSession returns.
RemoveSessionResume ==
    /\ removeCall.pc = "awaitDelete"
    /\ secrets' = [secrets EXCEPT ![AuthKey] = Undefined]
    /\ changeSeen' = ChangeEventSeen
    /\ removeCall' = [pc |-> "done", result |-> Resolved(Undefined)]
    /\ UNCHANGED <<getCall, createCall, written, subscriptions, sessionsChanged>>

\* ------------------------------------------- resolveAuthenticationSession
VARIABLES
    validateCall,     \* the call: pc, scopes, accessToken, user, result
    webSocket,        \* the ReconnectingWebSocket: state, delay, closeCalls
    rpcUser,          \* the getLoggedInUser request
    rpcScopes         \* the getGitpodTokenScopes request: state, hash

validateVars == <<validateCall, webSocket, rpcUser, rpcScopes>>

\* The ReconnectingWebSocket options, in milliseconds.
maxReconnectionDelay == 10000

minReconnectionDelay == 1000

\* reconnectionDelayGrowFactor, in tenths.
reconnectionDelayGrowFactor == 13

\* crypto.createHash('sha256').update(accessToken, 'utf8').digest('hex')
Sha256Hex(accessToken) == [kind |-> "sha256hex", of |-> accessToken]

NoRpc == [state |-> "none", hash |-> Undefined]

IdleValidate ==
    [pc |-> "idle", scopes |-> <<>>, accessToken |-> "", user |-> Undefined,
     result |-> Pending]

\* A faulty variant of ResolveAuthenticationSessionCall: both requests are
\* issued at once, before the answer to getLoggedInUser is awaited.
ResolveAuthenticationSessionCallIssuesBoth(sc, accessToken) ==
    /\ validateCall.pc = "idle"
    /\ validateCall' = [pc |-> "awaitUser", scopes |-> sc, accessToken |-> accessToken,
                        user |-> Undefined, result |-> Pending]
    /\ webSocket' = [state |-> "connecting", delay |-> minReconnectionDelay, closeCalls |-> 0]
    /\ rpcUser' = "queued"
    /\ rpcScopes' = [state |-> "sent", hash |-> Sha256Hex(accessToken)]

\* resolveAuthenticationSession up to `await getLoggedInUser()`: the socket is
\* created and starts connecting (startClosed: false), the request is issued
\* and waits for the connection.
ResolveAuthenticationSessionCall(sc, accessToken) ==
    /\ validateCall.pc = "idle"
    /\ validateCall' = [pc |-> "awaitUser", scopes |-> sc, accessToken |-> accessToken,
                        user |-> Undefined, result |-> Pending]
    /\ webSocket' = [state |-> "connecting", delay |-> minReconnectionDelay, closeCalls |-> 0]
    /\ rpcUser' = "queued"
    /\ UNCHANGED rpcScopes

\* A connection attempt succeeds.
ConnectSucceeds ==
    /\ webSocket.state = "connecting"
    /\ webSocket' = [webSocket EXCEPT !.state = "open", !.delay = minReconnectionDelay]
    /\ UNCHANGED <<validateCall, rpcUser, rpcScopes>>

\* A connection attempt fails or runs into connectionTimeout: with
\* maxRetries: Infinity the socket always schedules another attempt.
ConnectFails ==
    /\ webSocket.state = "connecting"
    /\ webSocket' = [webSocket EXCEPT !.state = "waiting"]
    /\ UNCHANGED <<validateCall, rpcUser, rpcScopes>>

\* The open connection drops: the socket schedules a reconnection, and a
\* request sent over the lost connection gets no answer any more.
ConnectionDrops ==
    /\ webSocket.state = "open"
    /\ webSocket' = [webSocket EXCEPT !.state = "waiting"]
    /\ rpcUser' = IF rpcUser = "sent" THEN "lost" ELSE rpcUser
    /\ UNCHANGED <<validateCall, rpcScopes>>

\* The next reconnection delay: grown by the factor, at most the maximum.
NextDelay(delay) ==
    LET grown == (delay * reconnectionDelayGrowFactor) \div 10
    IN  IF grown > maxReconnectionDelay THEN maxReconnectionDelay ELSE grown

\* The reconnection delay has passed: the next attempt starts.
Reconnect ==
    /\ webSocket.state = "waiting"
    /\ webSocket' = [webSocket EXCEPT !.state = "connecting", !.delay = NextDelay(@)]
    /\ UNCHANGED <<validateCall, rpcUser, rpcScopes>>

\* The proxy sends a queued request once the connection is open.
SendGetLoggedInUser ==
    /\ rpcUser = "queued"
    /\ webSocket.state = "open"
    /\ rpcUser' = "sent"
    /\ UNCHANGED <<validateCall, webSocket, rpcScopes>>

\* webSocket.close(): the socket closes and reconnects no more.
Close(ws) == [ws EXCEPT !.state = "closed", !.closeCalls = @ + 1]

\* getLoggedInUser answers `user` and the function runs to its return:
\* the hash is computed, getGitpodTokenScopes(hash) is issued and not awaited,
\* the socket is closed, the session is returned.
GetLoggedInUserAnswers(user) ==
    /\ validateCall.pc = "awaitUser"
    /\ rpcUser = "sent"
    /\ webSocket.state = "open"
    /\ rpcUser' = "ok"
    /\ rpcScopes' = [state |-> "sent", hash |-> Sha256Hex(validateCall.accessToken)]
    /\ webSocket' = Close(webSocket)
    /\ validateCall' = [validateCall EXCEPT
                          !.pc = "settled",
                          !.user = user,
                          !.result = Resolved(BuildSession(user, validateCall.scopes,
                                                           validateCall.accessToken))]

RpcError == [kind |-> "error", name |-> "ResponseError"]

\* getLoggedInUser fails: the await throws and the function rejects; nothing
\* after the await runs.
GetLoggedInUserFails ==
    /\ validateCall.pc = "awaitUser"
    /\ rpcUser \in {"sent", "lost"}
    /\ rpcUser' = "failed"
    /\ validateCall' = [validateCall EXCEPT !.pc = "settled", !.result = Rejected(RpcError)]
    /\ UNCHANGED <<webSocket, rpcScopes>>

\* getGitpodTokenScopes fails (its socket was closed under it): nobody holds
\* its promise.
GetGitpodTokenScopesFails ==
    /\ rpcScopes.state = "sent"
    /\ rpcScopes' = [rpcScopes EXCEPT !.state = "failed"]
    /\ UNCHANGED <<validateCall, webSocket, rpcUser>>

\* --------------------------------------------------------- promiseFromEvent
VARIABLES
    adapter,          \* the adapter promiseFromEvent was called with; "none" before the call
    inner,            \* the promise of `new Promise(...)`
    outer,            \* the promise returned: inner.then(onFulfilled, onRejected)
    subscription,     \* the listener on the source event: "none", "active", "disposed"
    microtasks,       \* the promise jobs queued, in order
    counts            \* events and cancels fired, adapter calls, dispose calls, handler runs

promiseVars == <<adapter, inner, outer, subscription, microtasks, counts>>

\* Most source events, and most firings of cancel, in one behaviour.
MaxEvents == 3

MaxCancels == 2

ZeroCounts == [events |-> 0, cancels |-> 0, adapterCalls |-> 0, disposeCalls |-> 0, handlerRuns |-> 0]

\* The adapters: the default, the one of waitForAuthenticationSession, and an
\* adapter free to do anything.
Adapters == {"passthrough", "authSession", "any"}

AdapterError == [kind |-> "error", name |-> "AdapterError"]

\* A faulty variant of AdapterMoves: the adapter of
\* waitForAuthenticationSession lets a change of another key pass and keeps
\* waiting.
AdapterMovesSkipOtherKeys(kind, value) ==
    CASE kind = "passthrough" -> {"resolve"}
      [] kind = "authSession" -> IF value # AuthKey THEN {"ignore"} ELSE {"resolve"}
      [] OTHER -> {"resolve", "reject", "ignore", "throw", "rejectLater"}

\* What an adapter may do with an event: call resolve, call reject, do
\* neither, throw, or return a promise that rejects later.
AdapterMoves(kind, value) ==
    CASE kind = "passthrough" -> {"resolve"}
      [] kind = "authSession" -> IF value # AuthKey THEN {"reject"} ELSE {"resolve"}
      [] OTHER -> {"resolve", "reject", "ignore", "throw", "rejectLater"}

\* What an adapter passes to reject.
AdapterReason(kind) == IF kind = "authSession" THEN Str("Cancelled") ELSE AdapterError

\* promiseFromEvent(event, adapter): the executor runs at once, subscribing to
\* cancel and to the source event; the returned promise is inner.then(...).
PromiseFromEventCall(kind) ==
    /\ adapter = "none"
    /\ adapter' = kind
    /\ inner' = Pending
    /\ outer' = Pending
    /\ subscription' = "active"
    /\ UNCHANGED <<microtasks, counts>>

\* resolve(v) or reject(e) of the inner promise: the first call settles it and
\* queues the reaction; later calls do nothing.
SettleInner(outcome) ==
    IF Settled(inner) THEN UNCHANGED <<inner, microtasks>>
    ELSE /\ inner' = outcome
         /\ microtasks' = Append(microtasks, "then")

\* The source event fires with `value` while the listener is subscribed: the
\* adapter is called inside try/catch, its return value goes through
\* Promise.resolve(...).catch(reject).
SourceEvent(value, move) ==
    /\ subscription = "active"
    /\ counts.events < MaxEvents
    /\ move \in AdapterMoves(adapter, value)
    /\ counts' = [counts EXCEPT !.events = @ + 1, !.adapterCalls = @ + 1]
    /\ CASE move = "resolve" -> SettleInner(Resolved(Str(value)))
         [] move = "reject" -> SettleInner(Rejected(AdapterReason(adapter)))
         [] move = "throw" -> SettleInner(Rejected(AdapterError))
         [] move = "rejectLater" ->
              /\ microtasks' = Append(microtasks, "catch")
              /\ UNCHANGED inner
         [] OTHER -> UNCHANGED <<inner, microtasks>>
    /\ UNCHANGED <<adapter, outer, subscription>>

\* The source event fires after the listener was disposed: nothing is called.
SourceEventUnheard ==
    /\ subscription = "disposed"
    /\ counts.events < MaxEvents
    /\ counts' = [counts EXCEPT !.events = @ + 1]
    /\ UNCHANGED <<adapter, inner, outer, subscription, microtasks>>

\* cancel.fire(): its listener calls reject(); it stays subscribed for good.
CancelFires ==
    /\ adapter # "none"
    /\ counts.cancels < MaxCancels
    /\ counts' = [counts EXCEPT !.cancels = @ + 1]
    /\ SettleInner(Rejected(Undefined))
    /\ UNCHANGED <<adapter, outer, subscription>>

\* subscription.dispose(), as the first statement of a handler of .then: the
\* handler's run is counted with it.
Dispose ==
    /\ subscription' = "disposed"
    /\ counts' = [counts EXCEPT !.disposeCalls = @ + 1, !.handlerRuns = @ + 1]

\* A faulty variant of OnRejected: the rejection handler forgets to dispose.
OnRejectedLeaks(error) ==
    /\ counts' = [counts EXCEPT !.handlerRuns = @ + 1]
    /\ outer' = Rejected(error)
    /\ UNCHANGED subscription

\* (result) => { subscription.dispose(); return result; }
OnFulfilled(result) ==
    /\ Dispose
    /\ outer' = Resolved(result)

\* error => { subscription.dispose(); throw error; }
OnRejected(error) ==
    /\ Dispose
    /\ outer' = Rejected(error)

\* The reaction of the inner promise runs: one of the two handlers of .then.
RunThen ==
    /\ microtasks # <<>>
    /\ Head(microtasks) = "then"
    /\ microtasks' = Tail(microtasks)
    /\ IF inner.status = "resolved" THEN OnFulfilled(inner.value) ELSE OnRejected(inner.value)
    /\ UNCHANGED <<adapter, inner>>

\* The promise an adapter returned rejects: .catch(reject) calls reject.
RunCatch ==
    /\ microtasks # <<>>
    /\ Head(microtasks) = "catch"
    /\ IF Settled(inner) THEN /\ microtasks' = Tail(microtasks)
                              /\ UNCHANGED inner
       ELSE /\ inner' = Rejected(AdapterError)
            /\ microtasks' = Append(Tail(microtasks), "then")
    /\ UNCHANGED <<adapter, outer, subscription, counts>>

\* ------------------------------------------- waitForAuthenticationSession
VARIABLES
    waitCall          \* one call of waitForAuthenticationSession: its position and
                      \* result, and what the store did while it ran

waitVars == <<waitCall>>

\* pc and result are the call's state.  The other fields record the run:
\*   firstKey   the key of the first change event the listener heard
\*   laterAuth  a change of 'gitpod.authSession' came after that first event
\*   atEvent    what the store held under 'gitpod.authSession' at that first event
\*   writes     records written under 'gitpod.authSession' before the read
\*   lastWrite  the last of them
\*   clean      every change of 'gitpod.authSession' before the read wrote a record
\*   stored     what secrets.get returned
IdleWait ==
    [pc |-> "idle", result |-> Pending, firstKey |-> Undefined, laterAuth |-> FALSE,
     atEvent |-> Undefined, writes |-> 0, lastWrite |-> Undefined, clean |-> TRUE,
     stored |-> Undefined]

\* waitForAuthenticationSession() up to `await authPromise.promise`.
WaitForAuthenticationSessionCall ==
    /\ waitCall.pc = "idle"
    /\ PromiseFromEventCall("authSession")
    /\ waitCall' = [waitCall EXCEPT !.pc = "awaitEvent"]
    /\ UNCHANGED secrets

\* The store changes under `key` while the call runs (a write by the callback
\* handler, or the delete of removeSession when `value` is undefined) and
\* fires secrets.onDidChange: the listener of promiseFromEvent hears it
\* while it is subscribed.
SecretChanges(key, value) ==
    /\ waitCall.pc # "idle"
    /\ secrets' = [secrets EXCEPT ![key] = value]
    /\ \/ \E move \in AdapterMoves(adapter, key) : SourceEvent(key, move)
       \/ SourceEventUnheard
    /\ LET first == subscription = "active" /\ waitCall.firstKey = Undefined
           unread == waitCall.pc \in {"awaitEvent", "awaitGet"} /\ key = AuthKey
           record == value.kind = "json"
       IN waitCall' =
            [waitCall EXCEPT
               !.firstKey = IF first THEN Str(key) ELSE @,
               !.atEvent = IF first THEN secrets'[AuthKey] ELSE @,
               !.laterAuth = @ \/ (waitCall.firstKey # Undefined /\ key = AuthKey),
               !.writes = IF unread /\ record THEN @ + 1 ELSE @,
               !.lastWrite = IF unread /\ record THEN value ELSE @,
               !.clean = @ /\ (unread => record)]

\* `await authPromise.promise` resumes: a rejection leaves the function, a
\* value lets it go on to `await context.secrets.get(...)`.
WaitResume ==
    /\ waitCall.pc = "awaitEvent"
    /\ Settled(outer)
    /\ waitCall' = IF outer.status = "resolved"
                   THEN [waitCall EXCEPT !.pc = "awaitGet"]
                   ELSE [waitCall EXCEPT !.pc = "done", !.result = Rejected(outer.value)]
    /\ UNCHANGED <<secrets, promiseVars>>

\* A faulty variant of SecretsGet: the value the store held when the change
\* event fired.
SecretsGetAtEvent == waitCall.atEvent

\* context.secrets.get('gitpod.authSession'), answered from the store as it is
\* when the answer is made.
SecretsGet == secrets[AuthKey]

\* secrets.get answers: JSON.parse(... || '') and the return.
WaitRead ==
    /\ waitCall.pc = "awaitGet"
    /\ LET stored == SecretsGet
           parsed == JSONparse(Or(stored, Str("")))
       IN waitCall' = [waitCall EXCEPT
                         !.pc = "done",
                         !.stored = stored,
                         !.result = IF parsed.ok THEN Resolved(parsed.value)
                                    ELSE Rejected(parsed.value)]
    /\ UNCHANGED <<secrets, promiseVars>>

\* ------------------------------------------------------------ generatePKCE
VARIABLES
    codePair          \* the pair generatePKCE returned last, with the bytes it drew

pkceVars == <<codePair>>

\* crypto.randomBytes(32)
randomBytesSize == 32

\* How many of the 32 bytes vary in the model; the others are 0.
MaxVaried == 7

Bytes(data) == [kind |-> "bytes", data |-> data]

\* The values crypto.randomBytes(32) may return.
RandomValues ==
    {Bytes(prefix \o [i \in 1..(randomBytesSize - MaxVaried) |-> 0]) :
        prefix \in [1..MaxVaried -> {0, 255}]}

\* buffer.toString('base64') and digest('base64'): the base64 text of bytes.
Base64(bytes) == [kind |-> "base64", of |-> bytes]

\* The bytes hash.update(text) feeds the hash: the UTF-8 bytes of the text.
Utf8(text) == [kind |-> "bytes", utf8 |-> text]

\* crypto.createHash('sha256') applied to bytes: an ideal hash, with equal
\* digests for equal inputs only.
Sha256(bytes) == [kind |-> "sha256", of |-> bytes]

NoCodePair == [random |-> Undefined, codeVerifier |-> Undefined, codeChallenge |-> Undefined]

\* A faulty variant of PKCEFrom: the hash is fed the random bytes themselves.
PKCEFromRawBytes(random) ==
    [random |-> random,
     codeVerifier |-> Base64(random),
     codeChallenge |-> Base64(Sha256(random))]

\* generatePKCE, given what crypto.randomBytes(32) returned.
PKCEFrom(random) ==
    LET codeVerifier == Base64(random)
        codeChallenge == Base64(Sha256(Utf8(codeVerifier)))
    IN  [random |-> random, codeVerifier |-> codeVerifier, codeChallenge |-> codeChallenge]

\* generatePKCE()
generatePKCE ==
    \E random \in RandomValues : codePair' = PKCEFrom(random)

\* ------------------------------------------------------------ behaviours
vars == <<providerVars, validateVars, promiseVars, waitVars, pkceVars>>

exceptProvider == <<validateVars, promiseVars, waitVars, pkceVars>>

exceptValidate == <<providerVars, promiseVars, waitVars, pkceVars>>

exceptPromise == <<providerVars, validateVars, waitVars, pkceVars>>

exceptPKCE == <<providerVars, validateVars, promiseVars, waitVars>>

exceptWait ==
    <<getCall, removeCall, createCall, changeSeen, written, subscriptions,
      sessionsChanged, validateVars, pkceVars>>

WaitIdle == waitCall = IdleWait

PKCEIdle == codePair = NoCodePair

ProviderIdle ==
    /\ getCall = IdleGet
    /\ removeCall = [pc |-> "idle", result |-> Pending]
    /\ createCall = IdleCreate
    /\ changeSeen = FALSE
    /\ written = Undefined
    /\ subscriptions = 0
    /\ sessionsChanged = 0

ValidateIdle ==
    /\ validateCall = IdleValidate
    /\ webSocket = [state |-> "none", delay |-> minReconnectionDelay, closeCalls |-> 0]
    /\ rpcUser = "none"
    /\ rpcScopes = NoRpc

PromiseIdle ==
    /\ adapter = "none"
    /\ inner = Pending
    /\ outer = Pending
    /\ subscription = "none"
    /\ microtasks = <<>>
    /\ counts = ZeroCounts

\* The authentication provider over the secret store, which may hold anything
\* under 'gitpod.authSession' when the extension starts.
Init ==
    /\ secrets \in [Keys -> StoredValues]
    /\ secrets[OtherKey] = Undefined
    /\ ProviderIdle
    /\ ValidateIdle
    /\ PromiseIdle
    /\ WaitIdle
    /\ PKCEIdle

Next ==
    \/ \E requested \in ScopesArgs :
         GetSessionsCall(requested) /\ UNCHANGED exceptProvider
    \/ GetSessionsResume /\ UNCHANGED exceptProvider
    \/ \E requested \in ScopesArgs :
         CreateSessionCall(requested) /\ UNCHANGED exceptProvider
    \/ OpenExternalResolves /\ UNCHANGED exceptProvider
    \/ OpenExternalRejects /\ UNCHANGED exceptProvider
    \/ TimerFires /\ UNCHANGED exceptProvider
    \/ \E value \in StoredValues \ {Undefined} :
         ExternalStore(AuthKey, value) /\ UNCHANGED exceptProvider
    \/ ExternalStore(OtherKey, Str("v")) /\ UNCHANGED exceptProvider
    \/ RemoveSessionCall /\ UNCHANGED exceptProvider
    \/ RemoveSessionResume /\ UNCHANGED exceptProvider

Spec == Init /\ [][Next]_vars

\* The event loop runs the callback of a timer that is due: an armed timer
\* fires.
TimerFairness == WF_vars(TimerFires /\ UNCHANGED exceptProvider)

\* createSession alone: its calls, the browser's answer, the timer, and the
\* callback handler storing records meanwhile.
CreateNext ==
    \/ \E requested \in ScopesArgs :
         CreateSessionCall(requested) /\ UNCHANGED exceptProvider
    \/ OpenExternalResolves /\ UNCHANGED exceptProvider
    \/ OpenExternalRejects /\ UNCHANGED exceptProvider
    \/ TimerFires /\ UNCHANGED exceptProvider
    \/ \E value \in StoredValues \ {Undefined} :
         ExternalStore(AuthKey, value) /\ UNCHANGED exceptProvider

FairSpecCreate == Init /\ [][CreateNext]_vars /\ TimerFairness

\* One call of resolveAuthenticationSession against a server and a network
\* that answer, fail or stay silent.
ValidateInit ==
    /\ secrets = [k \in Keys |-> Undefined]
    /\ ProviderIdle
    /\ ValidateIdle
    /\ PromiseIdle
    /\ WaitIdle
    /\ PKCEIdle

ValidateNext ==
    \/ \E sc \in ScopeLists, accessToken \in Tokens :
         ResolveAuthenticationSessionCall(sc, accessToken)
         /\ UNCHANGED exceptValidate
    \/ ConnectSucceeds /\ UNCHANGED exceptValidate
    \/ ConnectFails /\ UNCHANGED exceptValidate
    \/ ConnectionDrops /\ UNCHANGED exceptValidate
    \/ Reconnect /\ UNCHANGED exceptValidate
    \/ SendGetLoggedInUser /\ UNCHANGED exceptValidate
    \/ \E user \in Users :
         GetLoggedInUserAnswers(user) /\ UNCHANGED exceptValidate
    \/ GetLoggedInUserFails /\ UNCHANGED exceptValidate
    \/ GetGitpodTokenScopesFails /\ UNCHANGED exceptValidate

SpecValidate == ValidateInit /\ [][ValidateNext]_vars

\* What the code's scheduling guarantees: a connection attempt ends (it
\* succeeds, fails, or is cut by connectionTimeout), the reconnection timer
\* fires, and the proxy sends a queued request over an open connection.
\* Nothing obliges the server to answer or the network to connect.
ValidateFairness ==
    /\ WF_vars((ConnectSucceeds \/ ConnectFails) /\ UNCHANGED exceptValidate)
    /\ WF_vars(Reconnect /\ UNCHANGED exceptValidate)
    /\ WF_vars(SendGetLoggedInUser /\ UNCHANGED exceptValidate)

FairSpecValidate == ValidateInit /\ [][ValidateNext]_vars /\ ValidateFairness

\* One call of promiseFromEvent, its source event, its cancel emitter and the
\* promise jobs it queues.
PromiseInit ==
    /\ secrets = [k \in Keys |-> Undefined]
    /\ ProviderIdle
    /\ ValidateIdle
    /\ PromiseIdle
    /\ WaitIdle
    /\ PKCEIdle

PromiseNext ==
    \/ \E kind \in Adapters :
         PromiseFromEventCall(kind) /\ UNCHANGED exceptPromise
    \/ \E value \in Keys, move \in {"resolve", "reject", "ignore", "throw", "rejectLater"} :
         SourceEvent(value, move) /\ UNCHANGED exceptPromise
    \/ SourceEventUnheard /\ UNCHANGED exceptPromise
    \/ CancelFires /\ UNCHANGED exceptPromise
    \/ RunThen /\ UNCHANGED exceptPromise
    \/ RunCatch /\ UNCHANGED exceptPromise

SpecPromise == PromiseInit /\ [][PromiseNext]_vars

\* One call of waitForAuthenticationSession, over a store that holds anything
\* at the start and is written and cleared while the call runs.
WaitInit ==
    /\ secrets \in [Keys -> StoredValues]
    /\ secrets[OtherKey] = Undefined
    /\ ProviderIdle
    /\ ValidateIdle
    /\ PromiseIdle
    /\ WaitIdle
    /\ PKCEIdle

WaitNext ==
    \/ WaitForAuthenticationSessionCall /\ UNCHANGED exceptWait
    \/ \E value \in StoredValues :
         SecretChanges(AuthKey, value) /\ UNCHANGED exceptWait
    \/ SecretChanges(OtherKey, Str("v")) /\ UNCHANGED exceptWait
    \/ RunThen /\ UNCHANGED <<secrets, waitVars, exceptWait>>
    \/ WaitResume /\ UNCHANGED exceptWait
    \/ WaitRead /\ UNCHANGED exceptWait

SpecWait == WaitInit /\ [][WaitNext]_vars

\* Calls of generatePKCE over the values the random source may return.
PKCEInit ==
    /\ secrets = [k \in Keys |-> Undefined]
    /\ ProviderIdle
    /\ ValidateIdle
    /\ PromiseIdle
    /\ WaitIdle
    /\ PKCEIdle

PKCENext == generatePKCE /\ UNCHANGED exceptPKCE

SpecPKCE == PKCEInit /\ [][PKCENext]_vars

\* ------------------------------------------------------------ the claims
\* The set of the elements of a sequence.
Range(s) == {s[i] : i \in DOMAIN s}

\* C1 (as claimed): when a well-formed record was written under
\* 'gitpod.authSession' after createSession started and before its timer
\* fired, and the browser was opened without error, a settled createSession
\* has resolved with exactly that record.
C1_ResolvesWithStoredRecord ==
    (/\ createCall.pc = "settled"
     /\ written.kind = "json"
     /\ createCall.result # Rejected(OpenError))
    => createCall.result = Resolved(written.session)

\* C2 (as claimed): when no secret-store change event fired during the call
\* and the browser was opened without error, a settled createSession has
\* rejected with 'Login timed out.' and its timer has fired.
C2_PendingUntilTimeout ==
    (/\ createCall.pc = "settled"
     /\ ~changeSeen
     /\ createCall.result # Rejected(OpenError))
    => (createCall.timer = "fired" /\ createCall.result = Rejected(TimedOut))

\* C3 (as claimed): getSessions called with an empty scope array returns an
\* empty list, also when a valid session record is stored.
C3_EmptyScopesEmptyResult ==
    (getCall.pc = "done" /\ getCall.scopes = Array(<<>>) /\ getCall.stored.kind = "json")
    => getCall.result = Resolved(Array(<<>>))

\* C3 (amended): getSessions called without a scope array (scopes undefined)
\* returns an empty list whatever is stored; called with an empty scope array
\* while a valid session record is stored, it returns that session.
C3_NoScopesEmptyResult ==
    /\ (getCall.pc = "done" /\ getCall.scopes = Undefined)
       => getCall.result = Resolved(Array(<<>>))
    /\ (getCall.pc = "done" /\ getCall.scopes = Array(<<>>) /\ getCall.stored.kind = "json")
       => getCall.result = Resolved(Array(<<getCall.stored.session>>))

\* C3's case: getSessions returned for undefined scopes while a valid session
\* record is stored.
C3_Witness ==
    /\ getCall.pc = "done"
    /\ getCall.scopes = Undefined
    /\ getCall.stored.kind = "json"

\* C4: for a stored session record and a non-empty requested scope array,
\* getSessions returns the list of exactly the stored session when every
\* requested scope is among the session's scopes, and the empty list
\* otherwise; never more than one session.
C4_StoredSessionIffScopesCovered ==
    (/\ getCall.pc = "done"
     /\ getCall.scopes.kind = "array"
     /\ getCall.scopes.items # <<>>
     /\ getCall.stored.kind = "json")
    => /\ getCall.result.status = "resolved"
       /\ Len(getCall.result.value.items) <= 1
       /\ getCall.result.value.items =
            IF Range(getCall.scopes.items) \subseteq Range(getCall.stored.session.scopes)
            THEN <<getCall.stored.session>>
            ELSE <<>>

\* C4's case: two different scopes were requested of a stored session that
\* has both, and a request of a stored session that lacks one is possible too.
C4_Witness ==
    /\ getCall.pc = "done"
    /\ getCall.scopes.kind = "array"
    /\ Cardinality(Range(getCall.scopes.items)) = 2
    /\ getCall.stored.kind = "json"
    /\ getCall.result = Resolved(Array(<<getCall.stored.session>>))

\* C5 (as claimed): with no record stored under 'gitpod.authSession',
\* getSessions with a scope array completes with the empty list.
C5_NoRecordEmptyResult ==
    (/\ getCall.pc = "done"
     /\ getCall.scopes.kind = "array"
     /\ getCall.stored = Undefined)
    => getCall.result = Resolved(Array(<<>>))

\* C6 (as claimed): a settled run of resolveAuthenticationSession has closed
\* its socket exactly once, and the socket is closed.
C6_SettledMeansClosedOnce ==
    Settled(validateCall.result)
    => (webSocket.closeCalls = 1 /\ webSocket.state = "closed")

\* C7 (as claimed): when getLoggedInUser or getGitpodTokenScopes has failed,
\* a settled resolveAuthenticationSession has rejected: no session was
\* returned.
C7_RejectsWhenAnRpcFailed ==
    (/\ Settled(validateCall.result)
     /\ (rpcUser = "failed" \/ rpcScopes.state = "failed"))
    => validateCall.result.status = "rejected"

\* C8: the session resolveAuthenticationSession resolves with has the id and
\* the name getLoggedInUser answered as account id and label, the scopes the
\* caller passed in and the access token the caller passed in.
C8_SessionFromUserAndArguments ==
    validateCall.result.status = "resolved"
    => /\ validateCall.result.value.account.id = validateCall.user.id
       /\ validateCall.result.value.account.label = validateCall.user.name
       /\ validateCall.result.value.scopes = validateCall.scopes
       /\ validateCall.result.value.accessToken = validateCall.accessToken

\* C8's case: a call with one scope and the second token resolved for the
\* second user.
C8_Witness ==
    /\ validateCall.result.status = "resolved"
    /\ validateCall.scopes = <<scopes[2]>>
    /\ validateCall.accessToken = "token2"
    /\ validateCall.user.id = "u2"
    /\ validateCall.result.value.account.label = "Bob"

\* C9 (as claimed), in the case that the transport is never established:
\* when no connection attempt ever succeeds, a call of
\* resolveAuthenticationSession still settles eventually.
C9_EventuallySettles ==
    [](webSocket.state # "open")
    => ((validateCall.pc = "awaitUser") ~> Settled(validateCall.result))

\* C10: the promise promiseFromEvent returns settles at most once, the
\* subscription to the source event is disposed at most once, and once the
\* returned promise has settled (resolved, rejected or cancelled) the
\* subscription has been disposed exactly once and is no longer active.
C10_SettlesOnceDisposesOnce ==
    /\ counts.handlerRuns <= 1
    /\ counts.disposeCalls <= 1
    /\ Settled(outer) <=> counts.handlerRuns = 1
    /\ Settled(outer) => (counts.disposeCalls = 1 /\ subscription = "disposed")

\* C10's case: the returned promise rejected after the adapter saw several
\* source events, and a further source event and firings of cancel came after
\* the settlement.
C10_Witness ==
    /\ outer.status = "rejected"
    /\ counts.adapterCalls >= 2
    /\ counts.events > counts.adapterCalls
    /\ counts.cancels = MaxCancels
    /\ counts.disposeCalls = 1
    /\ microtasks = <<>>

\* C11 (as claimed): codeVerifier is the base64 text of the 32 random bytes,
\* and codeChallenge is the base64 text of the SHA-256 digest of those raw
\* 32 bytes.
C11_ChallengeHashesRawBytes ==
    codePair # NoCodePair
    => /\ codePair.codeVerifier = Base64(codePair.random)
       /\ codePair.codeChallenge = Base64(Sha256(codePair.random))

\* C11 (amended): codeVerifier is the base64 text of the 32 random bytes, and
\* codeChallenge is the base64 text of the SHA-256 digest of the UTF-8 bytes
\* of the codeVerifier text; with SHA-256 an ideal hash the challenge differs
\* from the verifier.
C11_ChallengeHashesVerifierText ==
    codePair # NoCodePair
    => /\ Len(codePair.random.data) = randomBytesSize
       /\ codePair.codeVerifier = Base64(codePair.random)
       /\ codePair.codeChallenge.kind = "base64"
       /\ codePair.codeChallenge.of.kind = "sha256"
       /\ codePair.codeChallenge.of.of = Utf8(codePair.codeVerifier)
       /\ codePair.codeChallenge # codePair.codeVerifier

\* C11's case: generatePKCE returned a pair for random bytes that are not all 0.
C11_Witness ==
    /\ codePair # NoCodePair
    /\ codePair.random.data[1] = 255
    /\ codePair.random.data[MaxVaried] = 255

\* C12: when removeSession returns, the store holds no record under
\* 'gitpod.authSession' and onDidChangeSessions was not fired by it; and
\* onDidChangeSessions is never fired at all, whatever getSessions,
\* createSession and removeSession calls are made.
C12_RemoveDeletesAndNothingFires ==
    /\ [](sessionsChanged = 0)
    /\ [][(removeCall.pc = "awaitDelete" /\ removeCall'.pc = "done")
            => (/\ secrets'[AuthKey] = Undefined
                /\ removeCall'.result = Resolved(Undefined)
                /\ sessionsChanged' = sessionsChanged)]_vars

\* C12's case: removeSession returned and left the key empty, after
\* getSessions had read a record under it and createSession had been called.
C12_Witness ==
    /\ removeCall.pc = "done"
    /\ secrets[AuthKey] = Undefined
    /\ getCall.pc = "done"
    /\ getCall.stored.kind = "json"
    /\ createCall.pc = "settled"
    /\ sessionsChanged = 0

\* C13: the first change event the wait hears decides it.  If its key is
\* 'gitpod.authSession', the event promise resolves, the call goes on to read
\* the store and never ends with 'Cancelled', and with a record in the store
\* at the read it returns that record.  If its key is another key, the event
\* promise rejects with 'Cancelled', the store is never read and the call can
\* only end rejected with 'Cancelled', whatever changes follow.
C13_FirstEventDecides ==
    /\ waitCall.firstKey = Str(AuthKey) =>
         /\ inner = Resolved(Str(AuthKey))
         /\ waitCall.result # Rejected(Str("Cancelled"))
         /\ (waitCall.pc = "done" /\ waitCall.stored.kind = "json") =>
              waitCall.result = Resolved(waitCall.stored.session)
    /\ waitCall.firstKey = Str(OtherKey) =>
         /\ inner = Rejected(Str("Cancelled"))
         /\ waitCall.pc # "awaitGet"
         /\ waitCall.stored = Undefined
         /\ waitCall.pc = "done" => waitCall.result = Rejected(Str("Cancelled"))
         /\ waitCall.result.status # "resolved"

\* C13's case: the first event was for another key, a change of
\* 'gitpod.authSession' that stored a record followed, and the call ended.
C13_Witness ==
    /\ waitCall.firstKey = Str(OtherKey)
    /\ waitCall.laterAuth
    /\ secrets[AuthKey].kind = "json"
    /\ waitCall.pc = "done"

\* C14: createSession does not wait for openExternal: an openExternal that
\* fails does not reject createSession, and one that never completes does not
\* keep createSession pending once the 5-minute timer has fired.
C14_OpenExternalNotAwaited ==
    /\ createCall.result # Rejected(OpenError)
    /\ createCall.timer = "fired" => createCall.pc # "awaitOpen"

\* C15: the socket is never closed while getGitpodTokenScopes is
\* outstanding.
C15_NotClosedWhileScopesOutstanding ==
    rpcScopes.state = "sent" => (webSocket.state # "closed" /\ webSocket.closeCalls = 0)

\* C16: getGitpodTokenScopes has been issued only when getLoggedInUser has
\* answered; while getLoggedInUser is queued, sent or lost, and after it has
\* failed, getGitpodTokenScopes has not been issued.
C16_ScopesIssuedAfterUserAnswered ==
    /\ [](rpcScopes.state # "none" => (rpcUser = "ok" /\ validateCall.user \in Users))
    /\ [](rpcUser # "ok" => rpcScopes = NoRpc)
    /\ [][rpcUser' = "failed" => rpcScopes' = NoRpc]_vars

\* C16's case: getLoggedInUser answered and getGitpodTokenScopes went out
\* with the hash of the access token.
C16_Witness ==
    /\ rpcUser = "ok"
    /\ rpcScopes.state = "sent"
    /\ rpcScopes.hash = Sha256Hex(validateCall.accessToken)
    /\ validateCall.user \in Users

\* C17: once the inner promise of promiseFromEvent is settled (the adapter
\* called resolve or reject, or cancel fired), no later source event reaches
\* the adapter, an event fired before the reaction of the promise has run
\* included.
C17_AdapterNotCalledAfterSettling ==
    [][Settled(inner) => counts'.adapterCalls = counts.adapterCalls]_vars

\* C18: a wait whose first event was for 'gitpod.authSession', and under
\* which that key was changed only by writes of records (once or several
\* times, before or after the event) until the store was read, resolves with
\* the record written last before the read: it does not reject, and it
\* returns no record but the one in the store at the read.
C18_LastWriteWins ==
    (/\ waitCall.pc = "done"
     /\ waitCall.firstKey = Str(AuthKey)
     /\ waitCall.clean)
    => /\ waitCall.writes >= 1
       /\ waitCall.lastWrite \in {Stringify(session) : session \in Sessions}
       /\ waitCall.stored = waitCall.lastWrite
       /\ waitCall.result = Resolved(waitCall.lastWrite.session)

\* C18's case: the record was written, the event fired, the record was
\* overwritten with another one before the read, and the call returned.
C18_Witness ==
    /\ waitCall.pc = "done"
    /\ waitCall.firstKey = Str(AuthKey)
    /\ waitCall.clean
    /\ waitCall.writes >= 2
    /\ waitCall.atEvent.kind = "json"
    /\ waitCall.atEvent # waitCall.lastWrite
    /\ waitCall.result.status = "resolved"

\* C19: a step of getSessions or of createSession leaves the secret store as
\* it is, and the value under 'gitpod.authSession' changes only in the step
\* of removeSession that deletes it or in a step that is none of the
\* provider's (the callback handler storing a value).
C19_ProviderNeverWrites ==
    [][/\ (getCall' # getCall \/ createCall' # createCall) => secrets' = secrets
       /\ secrets'[AuthKey] # secrets[AuthKey] =>
            \/ /\ removeCall.pc = "awaitDelete"
               /\ removeCall'.pc = "done"
               /\ secrets'[AuthKey] = Undefined
            \/ /\ getCall' = getCall
               /\ createCall' = createCall
               /\ removeCall' = removeCall]_vars

\* C19's case: getSessions, createSession and removeSession have all run,
\* and the record in the store is the one the callback handler wrote.
C19_Witness ==
    /\ getCall.pc = "done"
    /\ createCall.pc = "settled"
    /\ removeCall.pc = "done"
    /\ written.kind = "json"
    /\ secrets[AuthKey] = written

\* C20: a createSession call arms one timer, when it starts, and nothing
\* cancels it: an armed timer stays armed, through the settlement of the
\* call too, until it fires and rejects timeoutPromise with the timeout
\* message; and it does fire, however createSession ended.
C20_TimerArmedOnceNeverCancelled ==
    /\ [][/\ subscriptions' = subscriptions + 1 =>
               (createCall.timer # "armed" /\ createCall'.timer = "armed")
          /\ (createCall.timer # "armed" /\ createCall'.timer = "armed") =>
               subscriptions' = subscriptions + 1
          /\ createCall.timer = "armed" =>
               \/ createCall'.timer = "armed" /\ createCall'.timeoutPromise = Pending
               \/ createCall'.timer = "fired"
                    /\ createCall'.timeoutPromise = Rejected(TimedOut)]_vars
    /\ (createCall.timer = "armed") ~> (createCall.timer = "fired")

\* C20's case: createSession was rejected by a failing openExternal, and its
\* timer has fired since and rejected timeoutPromise.
C20_Witness ==
    /\ createCall.pc = "settled"
    /\ createCall.result = Rejected(OpenError)
    /\ createCall.timer = "fired"
    /\ createCall.timeoutPromise = Rejected(TimedOut)

====
